---------------------------- MODULE Spec2Model ----------------------------
(***************************************************************************)
(* A model of the HTTP server in src/src/http.rs and src/src/main.rs.      *)
(*                                                                         *)
(* Byte strings (Rust String / &str / Vec<u8>) are sequences of            *)
(* one-character strings, so that formatting, splitting, trimming and      *)
(* slicing are computed character by character as the code computes them.  *)
(* An Option<T> is a sequence of length 0 (None) or 1 (Some(v)).           *)
(* A HashMap<String, String> is a function whose domain is its key set.    *)
(***************************************************************************)
EXTENDS Naturals, Integers, Sequences, FiniteSets, TLC

(***************************************************************************)
(* String literals of the source.                                          *)
(***************************************************************************)
CRLF == <<"\r", "\n">>
SEP == <<":", " ">>
HTTP11_SP == <<"H", "T", "T", "P", "/", "1", ".", "1", " ">>
H_CONTENT_LENGTH == <<"C", "o", "n", "t", "e", "n", "t", "-", "L", "e", "n", "g", "t", "h">>
H_CONTENT_TYPE == <<"C", "o", "n", "t", "e", "n", "t", "-", "T", "y", "p", "e">>
H_CONTENT_ENCODING == <<"C", "o", "n", "t", "e", "n", "t", "-", "E", "n", "c", "o", "d", "i", "n", "g">>
H_USER_AGENT == <<"U", "s", "e", "r", "-", "A", "g", "e", "n", "t">>
H_ACCEPT_ENCODING == <<"A", "c", "c", "e", "p", "t", "-", "E", "n", "c", "o", "d", "i", "n", "g">>
S_TEXT_PLAIN == <<"t", "e", "x", "t", "/", "p", "l", "a", "i", "n">>
S_OCTET_STREAM == <<"a", "p", "p", "l", "i", "c", "a", "t", "i", "o", "n", "/", "o", "c", "t", "e", "t", "-", "s", "t", "r", "e", "a", "m">>
S_GZIP == <<"g", "z", "i", "p">>
S_OK == <<"O", "K">>
S_CREATED == <<"C", "r", "e", "a", "t", "e", "d">>
S_NOT_FOUND == <<"N", "o", "t", " ", "F", "o", "u", "n", "d">>
S_BAD_REQUEST == <<"B", "a", "d", " ", "R", "e", "q", "u", "e", "s", "t">>
S_UNAUTHORIZED == <<"U", "n", "a", "u", "t", "h", "o", "r", "i", "z", "e", "d">>
S_UNKNOWN_STATUS == <<"U", "N", "K", "N", "O", "W", "N", " ", "S", "T", "A", "T", "U", "S">>
P_ROOT == <<"/">>
P_ECHO == <<"/", "e", "c", "h", "o", "/">>
P_FILES == <<"/", "f", "i", "l", "e", "s", "/">>
P_USER_AGENT == <<"/", "u", "s", "e", "r", "-", "a", "g", "e", "n", "t">>
M_GET == <<"G", "E", "T">>
M_POST == <<"P", "O", "S", "T">>
M_PUT == <<"P", "U", "T">>
M_PATCH == <<"P", "A", "T", "C", "H">>
M_DELETE == <<"D", "E", "L", "E", "T", "E">>

(***************************************************************************)
(* Option<T>.                                                              *)
(***************************************************************************)
None == <<>>
Some(v) == <<v>>
IsSome(o) == Len(o) = 1
Unwrap(o) == o[1]

(***************************************************************************)
(* The str / slice operations the code calls, computed on characters.      *)
(***************************************************************************)
Take(s, n) == SubSeq(s, 1, n)
Drop(s, n) == SubSeq(s, n + 1, Len(s))

\* str::starts_with
StartsWith(s, p) == Len(p) <= Len(s) /\ Take(s, Len(p)) = p

\* str::find: the index (from 1) of the first occurrence of p in s, 0 if none.
Find(s, p) ==
    LET hits == {i \in 1..(Len(s) + 1) : StartsWith(Drop(s, i - 1), p)}
    IN  IF hits = {} THEN 0 ELSE CHOOSE i \in hits : \A j \in hits : i <= j

Contains(s, p) == Find(s, p) # 0

\* char::is_whitespace, on the characters of the model's alphabet.
IsWs(c) == c \in {" ", "\t", "\r", "\n"}

RECURSIVE TrimStart(_)
TrimStart(s) == IF s # <<>> /\ IsWs(s[1]) THEN TrimStart(Drop(s, 1)) ELSE s

RECURSIVE TrimEnd(_)
TrimEnd(s) == IF s # <<>> /\ IsWs(s[Len(s)]) THEN TrimEnd(Take(s, Len(s) - 1)) ELSE s

\* str::trim
Trim(s) == TrimEnd(TrimStart(s))

\* str::trim_end_matches(pat): removes every trailing repetition of pat.
RECURSIVE TrimEndMatches(_, _)
TrimEndMatches(s, p) ==
    IF Len(p) > 0 /\ Len(s) >= Len(p) /\ Drop(s, Len(s) - Len(p)) = p
    THEN TrimEndMatches(Take(s, Len(s) - Len(p)), p)
    ELSE s

\* str::split_once(pat): None, or Some(<<before, after>>) at the first pat.
SplitOnce(s, p) ==
    LET i == Find(s, p)
    IN  IF i = 0 THEN None ELSE Some(<<Take(s, i - 1), Drop(s, i - 1 + Len(p))>>)

\* str::split(char): the pieces between the occurrences of c (at least one piece).
RECURSIVE Split(_, _)
Split(s, c) ==
    LET i == Find(s, <<c>>)
    IN  IF i = 0 THEN <<s>> ELSE <<Take(s, i - 1)>> \o Split(Drop(s, i), c)

\* str::split_whitespace: the maximal runs of non-whitespace characters.
RECURSIVE SplitWhitespace(_)
SplitWhitespace(s) ==
    LET t == TrimStart(s)
        ws == {i \in 1..Len(t) : IsWs(t[i])}
        e == IF ws = {} THEN Len(t) + 1 ELSE CHOOSE i \in ws : \A j \in ws : i <= j
    IN  IF t = <<>> THEN <<>> ELSE <<Take(t, e - 1)>> \o SplitWhitespace(Drop(t, e - 1))

\* str::replace(from, to): every non-overlapping occurrence, left to right.
RECURSIVE Replace(_, _, _)
Replace(s, from, to) ==
    LET i == Find(s, from)
    IN  IF i = 0 \/ from = <<>> THEN s
        ELSE Take(s, i - 1) \o to \o Replace(Drop(s, i - 1 + Len(from)), from, to)

Digits == <<"0", "1", "2", "3", "4", "5", "6", "7", "8", "9">>
IsDigit(c) == \E d \in 1..10 : Digits[d] = c
DigitVal(c) == (CHOOSE d \in 1..10 : Digits[d] = c) - 1

\* Display for unsigned integers ("{}" in format!).
RECURSIVE ToDecimal(_)
ToDecimal(n) ==
    IF n < 10 THEN <<Digits[n + 1]>> ELSE ToDecimal(n \div 10) \o <<Digits[(n % 10) + 1]>>

RECURSIVE DecValue(_)
DecValue(s) == IF s = <<>> THEN 0 ELSE 10 * DecValue(Take(s, Len(s) - 1)) + DigitVal(s[Len(s)])

AllDigits(s) == s # <<>> /\ \A i \in 1..Len(s) : IsDigit(s[i])

(***************************************************************************)
(* flate2's GzEncoder (a library, outside src/): a gzip member is a        *)
(* 10-byte header, the DEFLATE stream and an 8-byte trailer (CRC32, ISIZE).*)
(* The DEFLATE stream is modelled as one stored block (1 marker byte, LEN, *)
(* NLEN, the data); the checksum bytes are abstract tokens.  What the model*)
(* keeps: the output differs from the input, is longer by a fixed amount,  *)
(* and Gunzip inverts it.                                                  *)
(***************************************************************************)
GzHeader == <<"x1f", "x8b", "x08", "x00", "x00", "x00", "x00", "x00", "x00", "xff">>
GzBlockHead(b) == <<"x01">> \o ToDecimal(Len(b) % 10) \o <<"x00">> \o <<"nlen", "nlen">>
GzTrailer(b) == <<"crc", "crc", "crc", "crc">> \o ToDecimal(Len(b) % 10) \o <<"x00", "x00", "x00">>
Gzip(b) == GzHeader \o GzBlockHead(b) \o b \o GzTrailer(b)

\* The inverse a client applies: Some(data), or None when z is no gzip member.
Gunzip(z) ==
    LET n == Len(z) - 23
        b == SubSeq(z, 16, 15 + n)
    IN  IF n >= 0 /\ Gzip(b) = z THEN Some(b) ELSE None

(***************************************************************************)
(* HttpResponse (http.rs 115-238).                                         *)
(***************************************************************************)
\* The match of set_status_code.
StatusText(code) ==
    CASE code = 200 -> S_OK
      [] code = 201 -> S_CREATED
      [] code = 404 -> S_NOT_FOUND
      [] code = 400 -> S_BAD_REQUEST
      [] code = 401 -> S_UNAUTHORIZED
      [] OTHER -> S_UNKNOWN_STATUS

\* HashMap::insert
MapInsert(h, k, v) == [x \in (DOMAIN h) \cup {k} |-> IF x = k THEN v ELSE h[x]]
HasKey(h, k) == k \in DOMAIN h
EmptyMap == <<>>

\* HttpResponse::new
NewResponse == [status_code |-> 200, status_text |-> S_OK, headers |-> EmptyMap, body |-> None]

\* set_status_code without its match: the code changes, the text stays.
set_status_code_KeepText(r, code) == [r EXCEPT !.status_code = code]

set_status_code(r, code) == [r EXCEPT !.status_code = code, !.status_text = StatusText(code)]
set_header(r, key, val) == [r EXCEPT !.headers = MapInsert(r.headers, key, val)]

\* ContentType::to_string
ContentTypeString(ct) == IF ct = "TextPlain" THEN S_TEXT_PLAIN ELSE S_OCTET_STREAM
ContentTypes == {"TextPlain", "OctetStream"}

set_content_type(r, ct) ==
    [r EXCEPT !.headers = MapInsert(r.headers, H_CONTENT_TYPE, ContentTypeString(ct))]
set_body(r, body) == [r EXCEPT !.body = Some(body)]

\* The orders in which iterating a HashMap may yield its keys: any.
KeyOrders(h) ==
    {o \in [1..Cardinality(DOMAIN h) -> DOMAIN h] : \A k \in DOMAIN h : \E i \in DOMAIN o : o[i] = k}

\* The header loop of write_to_buffer (193-199) over the keys in order o.
RECURSIVE HeaderLines(_, _)
HeaderLines(h, o) ==
    IF o = <<>> THEN <<>>
    ELSE (IF o[1] = H_CONTENT_LENGTH THEN <<>> ELSE o[1] \o SEP \o h[o[1]] \o CRLF)
         \o HeaderLines(h, Drop(o, 1))

ContentLengthLine(n) == H_CONTENT_LENGTH \o SEP \o ToDecimal(n) \o CRLF

\* The body section of write_to_buffer (202-234).
BodySection(r) ==
    IF IsSome(r.body)
    THEN (IF HasKey(r.headers, H_CONTENT_TYPE) THEN <<>>
          ELSE H_CONTENT_TYPE \o SEP \o S_TEXT_PLAIN \o CRLF)
         \o (IF HasKey(r.headers, H_CONTENT_ENCODING)
             THEN LET enc_buf == Gzip(Unwrap(r.body))
                  IN  ContentLengthLine(Len(enc_buf)) \o CRLF \o enc_buf
             ELSE ContentLengthLine(Len(Unwrap(r.body))) \o CRLF \o Unwrap(r.body))
    ELSE ContentLengthLine(0) \o CRLF

\* HttpResponse::write_to_buffer, the HashMap yielding its keys in order o.
write_to_buffer(r, o) ==
    HTTP11_SP \o ToDecimal(r.status_code) \o <<" ">> \o r.status_text \o CRLF
    \o HeaderLines(r.headers, o)
    \o BodySection(r)

(***************************************************************************)
(* What a receiver makes of a serialized response: the lines up to the     *)
(* first blank line are the status line and the header lines, the bytes    *)
(* after it are the body.                                                  *)
(***************************************************************************)
\* Offset of the first CRLF CRLF, 0 if none.
HeadEnd(buf) == Find(buf, CRLF \o CRLF)
BodyBytes(buf) == Drop(buf, HeadEnd(buf) + 3)

RECURSIVE LinesOf(_)
LinesOf(s) ==
    LET i == Find(s, CRLF)
    IN  IF i = 0 THEN (IF s = <<>> THEN <<>> ELSE <<s>>)
        ELSE <<Take(s, i - 1)>> \o LinesOf(Drop(s, i + 1))

\* The header lines: after the status line, before the first blank line.
HeadLines(buf) == Drop(LinesOf(Take(buf, HeadEnd(buf) - 1)), 1)
LinesNamed(buf, name) ==
    {i \in 1..Len(HeadLines(buf)) : StartsWith(HeadLines(buf)[i], name \o <<":">>)}
HeaderValue(line, name) == TrimStart(Drop(line, Len(name) + 1))


(***************************************************************************)
(* HttpRequest::from_reader (http.rs 27-113).                              *)
(***************************************************************************)
\* AsyncBufReadExt::read_line on the unread bytes s: the bytes up to and
\* including the first "\n", or every remaining byte when the stream ends
\* first.  At the end of the stream it is Ok(0) and the line is empty (eof).
ReadLine(s) ==
    LET i == Find(s, <<"\n">>)
    IN  IF i = 0 THEN [line |-> s, rest |-> <<>>, eof |-> s = <<>>]
        ELSE [line |-> Take(s, i), rest |-> Drop(s, i), eof |-> FALSE]

\* parse_request_method: Some(method) or None for the Err of line 111.
parse_request_method(t) ==
    CASE t = M_GET -> Some("GET")
      [] t = M_POST -> Some("POST")
      [] t = M_PUT -> Some("PUT")
      [] t = M_PATCH -> Some("PATCH")
      [] t = M_DELETE -> Some("DELETE")
      [] OTHER -> None

\* <usize as FromStr>: an optional "+", then one or more digits.
ParseUsize(s) ==
    LET d == IF s # <<>> /\ s[1] = "+" THEN Drop(s, 1) ELSE s
    IN  IF AllDigits(d) THEN Some(DecValue(d)) ELSE None

Lower(c) ==
    CASE c = "I" -> "i" [] c = "N" -> "n" [] c = "F" -> "f" [] c = "T" -> "t"
      [] c = "Y" -> "y" [] c = "A" -> "a" [] c = "E" -> "e" [] OTHER -> c
LowerStr(s) == [i \in 1..Len(s) |-> Lower(s[i])]

\* digits [ "." digits ] with at least one digit in all.
IsMantissa(s) ==
    LET i == Find(s, <<".">>)
        a == IF i = 0 THEN s ELSE Take(s, i - 1)
        b == IF i = 0 THEN <<>> ELSE Drop(s, i)
    IN  /\ a = <<>> \/ AllDigits(a)
        /\ b = <<>> \/ AllDigits(b)
        /\ a # <<>> \/ b # <<>>

\* <f32 as FromStr>: whether s parses (the value itself is never used).
ParseF32Ok(s) ==
    LET u == IF s # <<>> /\ s[1] \in {"+", "-"} THEN Drop(s, 1) ELSE s
        l == LowerStr(u)
        e == Find(l, <<"e">>)
        m == IF e = 0 THEN l ELSE Take(l, e - 1)
        x == IF e = 0 THEN <<>> ELSE Drop(l, e)
        xd == IF x # <<>> /\ x[1] \in {"+", "-"} THEN Drop(x, 1) ELSE x
    IN  \/ l \in {<<"i", "n", "f">>, <<"n", "a", "n">>,
                  <<"i", "n", "f", "i", "n", "i", "t", "y">>}
        \/ /\ IsMantissa(m)
           /\ e = 0 \/ AllDigits(xd)

\* Lines 33-41 on the start line l: the request's method, path and version,
\* an Err, or a panic (an index out of range at req_parts[i] or at [5..]).
ParseStartLine(l) ==
    LET req_parts == SplitWhitespace(l)
        n == Len(req_parts)
        method == parse_request_method(req_parts[1])
    IN  IF n < 1 THEN [kind |-> "panic", at |-> "req_parts[0]"]
        ELSE IF ~IsSome(method) THEN [kind |-> "err", at |-> "UnknownMethod"]
        ELSE IF n < 2 THEN [kind |-> "panic", at |-> "req_parts[1]"]
        ELSE IF n < 3 THEN [kind |-> "panic", at |-> "req_parts[2]"]
        ELSE IF Len(req_parts[3]) < 5 THEN [kind |-> "panic", at |-> "req_parts[2][5..]"]
        ELSE IF ~ParseF32Ok(Drop(req_parts[3], 5))
             THEN [kind |-> "err", at |-> "MalformedVersion"]
        ELSE [kind |-> "ok", method |-> Unwrap(method), path |-> req_parts[2],
              version |-> Drop(req_parts[3], 5)]

\* One pass of the loop of get_headers on the line just read: the map after it.
HeaderInsert(headers, header) ==
    LET kv == SplitOnce(Trim(header), SEP)
    IN  IF IsSome(kv)
        THEN MapInsert(headers, Unwrap(kv)[1], TrimEndMatches(Unwrap(kv)[2], CRLF))
        ELSE headers

\* The largest buffer the allocator grants.  body.resize(content_length, 0)
\* (line 55) allocates the declared length before a byte of the body is
\* read; when the allocation fails, Vec calls handle_alloc_error, which
\* aborts the process.
MaxAlloc == 8

\* ReadBody with `None` where line 61 has `Some(body)` for a POST that
\* declares no length.
ReadBody_NoneWithoutLength(method, headers, s) ==
    IF method = "POST"
    THEN IF HasKey(headers, H_CONTENT_LENGTH)
         THEN LET content_length == ParseUsize(headers[H_CONTENT_LENGTH])
              IN  IF ~IsSome(content_length)
                  THEN [kind |-> "err", at |-> "ContentLengthParse"]
                  ELSE IF Unwrap(content_length) > MaxAlloc
                  THEN [kind |-> "abort", at |-> "alloc"]
                  ELSE IF Len(s) < Unwrap(content_length)
                  THEN [kind |-> "err", at |-> "BodyRead"]
                  ELSE [kind |-> "ok", body |-> Some(Take(s, Unwrap(content_length))),
                        rest |-> Drop(s, Unwrap(content_length))]
         ELSE [kind |-> "ok", body |-> None, rest |-> s]
    ELSE IF method = "GET" THEN [kind |-> "ok", body |-> None, rest |-> s]
    ELSE [kind |-> "panic", at |-> "todo!()"]

\* Lines 47-67: the body of the request from its method, its headers and the
\* unread bytes s: the body and the bytes left, an Err, a panic, or the abort
\* of the process.
ReadBody(method, headers, s) ==
    IF method = "POST"
    THEN IF HasKey(headers, H_CONTENT_LENGTH)
         THEN LET content_length == ParseUsize(headers[H_CONTENT_LENGTH])
              IN  IF ~IsSome(content_length)
                  THEN [kind |-> "err", at |-> "ContentLengthParse"]
                  ELSE IF Unwrap(content_length) > MaxAlloc
                  THEN [kind |-> "abort", at |-> "alloc"]
                  ELSE IF Len(s) < Unwrap(content_length)
                  THEN [kind |-> "err", at |-> "BodyRead"]
                  ELSE [kind |-> "ok", body |-> Some(Take(s, Unwrap(content_length))),
                        rest |-> Drop(s, Unwrap(content_length))]
         ELSE [kind |-> "ok", body |-> Some(<<>>), rest |-> s]
    ELSE IF method = "GET" THEN [kind |-> "ok", body |-> None, rest |-> s]
    ELSE [kind |-> "panic", at |-> "todo!()"]

(***************************************************************************)
(* handler (main.rs 8-146).                                                *)
(***************************************************************************)
\* Encoding with a substring test where line 27 compares whole values.
Encoding_Substring(headers) ==
    IF HasKey(headers, H_ACCEPT_ENCODING) /\ Contains(headers[H_ACCEPT_ENCODING], S_GZIP)
    THEN S_GZIP ELSE <<>>

\* Lines 24-30: "gzip" when the Accept-Encoding header lists it, else "".
Encoding(headers) ==
    IF HasKey(headers, H_ACCEPT_ENCODING)
    THEN LET encodings == Split(headers[H_ACCEPT_ENCODING], ",")
         IN  IF \E i \in 1..Len(encodings) : Trim(encodings[i]) = S_GZIP
             THEN S_GZIP ELSE <<>>
    ELSE <<>>

\* Lines 20-22.
UserAgent(headers) == IF HasKey(headers, H_USER_AGENT) THEN headers[H_USER_AGENT] ELSE <<>>

\* RouteOf with "/user-agent" matched as a prefix, like its neighbours.
RouteOf_UserAgentPrefix(path) ==
    IF path = P_ROOT THEN "root"
    ELSE IF StartsWith(path, P_ECHO) THEN "echo"
    ELSE IF StartsWith(path, P_FILES) THEN "files"
    ELSE IF StartsWith(path, P_USER_AGENT) THEN "user_agent"
    ELSE "not_found"

\* The arm of `match path` (lines 35-108) that is taken.
RouteOf(path) ==
    IF path = P_ROOT THEN "root"
    ELSE IF StartsWith(path, P_ECHO) THEN "echo"
    ELSE IF StartsWith(path, P_FILES) THEN "files"
    ELSE IF path = P_USER_AGENT THEN "user_agent"
    ELSE "not_found"

echo_route(path) == set_body(NewResponse, Replace(path, P_ECHO, <<>>))
user_agent_route(user_agent) == set_body(NewResponse, user_agent)

\* Lines 43-47: the echo response with its Content-Encoding header.
EchoResponse(path, encoding) ==
    LET r == echo_route(path)
    IN  IF encoding # <<>>
        THEN [r EXCEPT !.headers = MapInsert(r.headers, H_CONTENT_ENCODING, encoding)]
        ELSE r

\* &path["/files/".len()..]
FilePath(path) == Drop(path, Len(P_FILES))

\* set_file_content without the map_err of lines 171-173: a failed read
\* leaves the response as it was.
set_file_content_NoMapErr(r, data) ==
    IF IsSome(data)
    THEN set_content_type(set_body(r, Unwrap(data)), "OctetStream")
    ELSE r

\* set_file_content (http.rs 162-181) on the result of tokio::fs::read:
\* None for an Err, Some(data) for the bytes read.
set_file_content(r, data) ==
    IF IsSome(data)
    THEN set_content_type(set_body(r, Unwrap(data)), "OctetStream")
    ELSE set_status_code(r, 404)


(***************************************************************************)
(* The file system under the served directory.  A file is None (missing)   *)
(* or Some(bytes).  A name outside FileNames (the empty name, which is the  *)
(* directory itself) can be neither read nor created as a file.            *)
(***************************************************************************)
FileNames == {<<"f">>, <<"g">>}

\* tokio::fs::read(dir_path.join(name)): None for an Err.
FsRead(files, name) == IF name \in DOMAIN files THEN files[name] ELSE None

\* File::create(dir_path.join(name)): creates or truncates; fails on a directory.
FsCanCreate(files, name) == name \in DOMAIN files

\* A write of data at offset 0 of a file holding old.
Overlay(data, old) == data \o Drop(old, Len(data))

(***************************************************************************)
(* Bounds and inputs.                                                      *)
(***************************************************************************)
\* Connection slots.
MaxConns == 2
\* Connections accepted in one run.
MaxAccepts == 2
\* Longest body append_body may build.
MaxBodyLen == 2

Conns == 1..MaxConns

SP == <<" ">>
V_HTTP11 == <<"H", "T", "T", "P", "/", "1", ".", "1">>
StartLineOf(m, path, v) == m \o SP \o path \o SP \o v \o CRLF
HeaderLineOf(k, v) == k \o SEP \o v \o CRLF

\* Request paths.
PathEchoAb == P_ECHO \o <<"a", "b">>
PathEchoTwice == P_ECHO \o <<"a">> \o P_ECHO \o <<"b">>
PathFileF == P_FILES \o <<"f">>
PathFileG == P_FILES \o <<"g">>
RoutePaths ==
    {P_ROOT, PathEchoAb, PathEchoTwice, P_ECHO, <<"/", "e", "c", "h", "o">>,
     PathFileF, PathFileG, P_FILES, <<"/", "f", "i", "l", "e", "s">>,
     P_USER_AGENT, P_USER_AGENT \o <<"/">>, <<"/", "x">>, <<"/", "/">>}

\* Header blocks (each a sequence of lines, the blank line not included).
UaLine == HeaderLineOf(H_USER_AGENT, <<"c", "u">>)
AeBlocks ==
    {HeaderLineOf(H_ACCEPT_ENCODING, S_GZIP),
     HeaderLineOf(H_ACCEPT_ENCODING, <<"b", "r", ",", " ", "g", "z", "i", "p">>),
     HeaderLineOf(H_ACCEPT_ENCODING, <<"g", "z", "i", "p", " ", ",", "b", "r">>),
     HeaderLineOf(H_ACCEPT_ENCODING, <<"b", "r">>),
     HeaderLineOf(H_ACCEPT_ENCODING, <<"g", "z", "i", "p", "x">>),
     HeaderLineOf(H_ACCEPT_ENCODING, <<"G", "Z", "I", "P">>),
     HeaderLineOf(H_ACCEPT_ENCODING, <<>>),
     H_ACCEPT_ENCODING \o <<":">> \o S_GZIP \o CRLF,
     HeaderLineOf(<<"a", "c", "c", "e", "p", "t", "-", "e", "n", "c", "o", "d", "i", "n", "g">>, S_GZIP),
     HeaderLineOf(H_ACCEPT_ENCODING, S_GZIP) \o HeaderLineOf(H_ACCEPT_ENCODING, <<"b", "r">>),
     HeaderLineOf(H_ACCEPT_ENCODING, <<"b", "r">>) \o HeaderLineOf(H_ACCEPT_ENCODING, S_GZIP),
     UaLine \o HeaderLineOf(H_ACCEPT_ENCODING, S_GZIP)}
ClValues ==
    {<<"0">>, <<"1">>, <<"2">>, <<"3">>, <<"+", "1">>, <<"-", "1">>, <<" ", "1">>, <<"x">>, <<>>,
     <<"9", "9">>}
Payloads == {<<>>, <<"a">>, <<"a", "b">>}

\* Requests that exercise the router: every path, by GET and by POST.
RoutingRequests ==
    {StartLineOf(m, path, V_HTTP11) \o CRLF : m \in {M_GET, M_POST}, path \in RoutePaths}
\* Requests with headers the handler reads.
HeaderRequests ==
    {StartLineOf(M_GET, path, V_HTTP11) \o h \o CRLF :
        path \in {PathEchoAb, P_USER_AGENT}, h \in AeBlocks \cup {UaLine}}
\* Requests with a declared or undeclared body.
BodyRequests ==
    {StartLineOf(m, PathFileF, V_HTTP11) \o HeaderLineOf(H_CONTENT_LENGTH, n) \o CRLF \o b :
        m \in {M_GET, M_POST}, n \in ClValues, b \in Payloads}
    \cup {StartLineOf(M_POST, PathFileF, V_HTTP11) \o CRLF \o b : b \in Payloads}
    \cup {StartLineOf(M_POST, P_FILES, V_HTTP11) \o HeaderLineOf(H_CONTENT_LENGTH, <<"1">>) \o CRLF \o <<"a">>}
\* Start lines that are short, empty or otherwise not what the parser expects.
OddStartLines ==
    {<<>>, CRLF, <<" ">> \o CRLF, M_GET \o CRLF, M_GET \o SP \o P_ROOT \o CRLF,
     <<"F", "O", "O">> \o CRLF, <<"F", "O", "O">> \o SP \o P_ROOT \o CRLF,
     M_GET \o SP \o P_ROOT,
     StartLineOf(<<"F", "O", "O">>, P_ROOT, V_HTTP11),
     StartLineOf(<<"g", "e", "t">>, P_ROOT, V_HTTP11),
     StartLineOf(M_PUT, PathFileF, V_HTTP11),
     StartLineOf(M_PATCH, PathFileF, V_HTTP11),
     StartLineOf(M_DELETE, PathFileF, V_HTTP11),
     StartLineOf(M_DELETE, P_ROOT, V_HTTP11),
     StartLineOf(M_GET, P_ROOT, <<"H", "T", "T", "P", "/", "x">>),
     StartLineOf(M_GET, P_ROOT, <<"H", "T", "T", "P">>),
     StartLineOf(M_GET, P_ROOT, <<"H", "T", "T", "P", "/">>),
     StartLineOf(M_GET, P_ROOT, <<"H", "T", "T", "P", "/", "1">>),
     StartLineOf(M_GET, P_ROOT, <<"h", "t", "t", "p", "/", "1", ".", "1">>),
     StartLineOf(M_GET, P_ROOT, <<"H", "T", "T", "P", "/", "1", ".", "1", "e", "1">>),
     StartLineOf(M_GET, P_ROOT, V_HTTP11 \o SP \o <<"z">>)}
OddRequests == {l \o CRLF : l \in OddStartLines} \cup {<<>>, M_GET}
\* Streams the client closes early: every prefix of two complete requests.
CutBase ==
    {StartLineOf(M_GET, P_USER_AGENT, V_HTTP11) \o UaLine \o CRLF,
     StartLineOf(M_POST, PathFileF, V_HTTP11) \o HeaderLineOf(H_CONTENT_LENGTH, <<"2">>)
        \o CRLF \o <<"a", "b">>}
CutRequests == UNION {{Take(s, n) : n \in 0..Len(s)} : s \in CutBase}
\* Two requests on one connection.
PipelinedRequests ==
    {StartLineOf(M_GET, P_ROOT, V_HTTP11) \o CRLF \o StartLineOf(M_GET, PathEchoAb, V_HTTP11) \o CRLF,
     StartLineOf(M_POST, PathFileF, V_HTTP11) \o HeaderLineOf(H_CONTENT_LENGTH, <<"1">>) \o CRLF
        \o <<"a">> \o StartLineOf(M_GET, PathFileF, V_HTTP11) \o CRLF}

\* The byte streams a client may send before it closes its side.
Requests ==
    RoutingRequests \cup HeaderRequests \cup BodyRequests \cup OddRequests \cup CutRequests
        \cup PipelinedRequests

(***************************************************************************)
(* The state.                                                              *)
(***************************************************************************)
VARIABLES
    res,         \* the HttpResponse a caller of the library is building
    out,         \* Option: the buffer its last write_to_buffer returned
    api_pc,      \* "live", or "panicked" after append_body on no body
    pc,          \* per connection: where its task is
    stream,      \* per connection: the bytes its client sends before closing
    inp,         \* per connection: the bytes of the stream not yet read
    eof,         \* per connection: the last read found the stream at its end
    start_line,  \* per connection: req_start_line
    line,        \* per connection: header, the line get_headers read last
    req,         \* per connection: the HttpRequest, as far as it is parsed
    route,       \* per connection: the arm of the router that was taken
    data,        \* per connection: Option, what tokio::fs::read returned
    resp,        \* per connection: the HttpResponse `res` of the arm
    res_buffer,  \* per connection: _res_buffer
    sent,        \* per connection: the bytes written to the stream
    err,         \* per connection: the Err returned or the place of the panic
    fs,          \* the files of the served directory
    writes,      \* writes handed to the blocking pool and not yet done
    accepted,    \* connections accepted so far
    posted,      \* per file: Some(b) once a POST of b to it was answered 201
    seen,        \* per connection: posted as it was when the task started
    offered      \* per file: its first content and every body a POST began to store

apiVars == <<res, out, api_pc>>
connVars == <<pc, stream, inp, eof, start_line, line, req, route, data, resp, res_buffer, sent, err>>
envVars == <<fs, writes, accepted, posted, seen, offered>>
vars == <<res, out, api_pc, pc, stream, inp, eof, start_line, line, req, route, data, resp,
          res_buffer, sent, err, fs, writes, accepted, posted, seen, offered>>

NoRequest == [method |-> "", path |-> <<>>, version |-> <<>>, headers |-> EmptyMap, body |-> None]
NoPosted == [n \in FileNames |-> None]

ApiInit == res = NewResponse /\ out = None /\ api_pc = "live"

ServerInit ==
    /\ pc = [c \in Conns |-> "idle"]
    /\ stream = [c \in Conns |-> <<>>]
    /\ inp = [c \in Conns |-> <<>>]
    /\ eof = [c \in Conns |-> FALSE]
    /\ start_line = [c \in Conns |-> <<>>]
    /\ line = [c \in Conns |-> <<>>]
    /\ data = [c \in Conns |-> None]
    /\ req = [c \in Conns |-> NoRequest]
    /\ route = [c \in Conns |-> ""]
    /\ resp = [c \in Conns |-> NewResponse]
    /\ res_buffer = [c \in Conns |-> <<>>]
    /\ sent = [c \in Conns |-> <<>>]
    /\ err = [c \in Conns |-> ""]
    /\ writes = {}
    /\ accepted = 0
    /\ posted = NoPosted
    /\ seen = [c \in Conns |-> NoPosted]

NoFiles == [n \in FileNames |-> None]

\* The library on its own: no connection, a directory that holds one file.
InitApi ==
    /\ ApiInit
    /\ ServerInit
    /\ fs = [NoFiles EXCEPT ![<<"f">>] = Some(<<"x">>)]
    /\ offered = [n \in FileNames |-> {fs[n]}]

\* The served directory as the server finds it: f missing or present, g missing.
Init ==
    /\ ApiInit
    /\ ServerInit
    /\ \E f0 \in {None, Some(<<"x", "y", "z">>)} :
          /\ fs = [n \in FileNames |-> IF n = <<"f">> THEN f0 ELSE None]
          /\ offered = [n \in FileNames |-> IF n = <<"f">> THEN {f0} ELSE {None}]


(***************************************************************************)
(* A caller of the HttpResponse API (http.rs 123-237).                     *)
(***************************************************************************)
StatusCodes == {200, 201, 204, 400, 401, 404, 500}
\* A header value that carries a line break of its own.
V_SPLIT == <<"1">> \o CRLF \o H_CONTENT_LENGTH \o SEP \o <<"7">> \o CRLF
ApiKeys == {H_CONTENT_LENGTH, H_CONTENT_ENCODING, <<"X">>}
ApiValues == {<<"5">>, V_SPLIT}
ApiBodies == {<<>>, <<"a">>, <<"a", "b">>}

serverVars == <<connVars, envVars>>

CallNew ==
    /\ res' = NewResponse /\ out' = None /\ api_pc' = "live"
    /\ UNCHANGED serverVars

CallSetStatusCode ==
    /\ api_pc = "live"
    /\ \E code \in StatusCodes : res' = set_status_code(res, code)
    /\ out' = None
    /\ UNCHANGED <<api_pc, serverVars>>

CallSetHeader ==
    /\ api_pc = "live"
    /\ \E k \in ApiKeys, v \in ApiValues : res' = set_header(res, k, v)
    /\ out' = None
    /\ UNCHANGED <<api_pc, serverVars>>

CallSetContentType ==
    /\ api_pc = "live"
    /\ \E ct \in ContentTypes : res' = set_content_type(res, ct)
    /\ out' = None
    /\ UNCHANGED <<api_pc, serverVars>>

CallSetBody ==
    /\ api_pc = "live"
    /\ \E b \in ApiBodies : res' = set_body(res, b)
    /\ out' = None
    /\ UNCHANGED <<api_pc, serverVars>>

\* set_file_content(path) for a path in the served directory.
CallSetFileContent ==
    /\ api_pc = "live"
    /\ \E name \in FileNames : res' = set_file_content(res, FsRead(fs, name))
    /\ out' = None
    /\ UNCHANGED <<api_pc, serverVars>>

\* append_body: self.body.as_mut().unwrap() panics when there is no body.
CallAppendBody ==
    /\ api_pc = "live"
    /\ \E b \in ApiBodies :
          IF IsSome(res.body)
          THEN /\ Len(Unwrap(res.body)) + Len(b) <= MaxBodyLen
               /\ res' = [res EXCEPT !.body = Some(Unwrap(res.body) \o b)]
               /\ api_pc' = "live"
          ELSE /\ res' = res
               /\ api_pc' = "panicked"
    /\ out' = None
    /\ UNCHANGED serverVars

CallWriteToBuffer ==
    /\ api_pc = "live"
    /\ \E o \in KeyOrders(res.headers) : out' = Some(write_to_buffer(res, o))
    /\ UNCHANGED <<res, api_pc, serverVars>>

ApiNext ==
    \/ CallNew
    \/ CallSetStatusCode
    \/ CallSetHeader
    \/ CallSetContentType
    \/ CallSetBody
    \/ CallSetFileContent
    \/ CallAppendBody
    \/ CallWriteToBuffer

\* The library used on its own: any sequence of calls on one HttpResponse.
SpecApi == InitApi /\ [][ApiNext]_vars

(***************************************************************************)
(* The server: main (main.rs 171-184) accepts a connection and spawns      *)
(* handler on it; each action below is one step of one task, from one      *)
(* await to the next.                                                      *)
(***************************************************************************)
Finished(c) == pc[c] \in {"done", "failed", "panicked"}

\* The task returns Err(at) (logged by main, line 181) ...
Fail(c, at) == pc' = [pc EXCEPT ![c] = "failed"] /\ err' = [err EXCEPT ![c] = at]
\* ... or panics at `at`.
Panic(c, at) == pc' = [pc EXCEPT ![c] = "panicked"] /\ err' = [err EXCEPT ![c] = at]

\* The task of c is running: spawned and not yet returned or unwound.
Running(c) == pc[c] \notin {"idle", "done", "failed", "panicked", "aborted"}

\* The task of c aborts the process at `at`: every running task ends where it
\* is, main's loop with them, and the blocking pool with the writes it holds.
Abort(c, at) ==
    /\ pc' = [d \in Conns |-> IF Running(d) THEN "aborted" ELSE pc[d]]
    /\ err' = [err EXCEPT ![c] = at]
    /\ writes' = {}

\* listener.accept() and tokio::spawn: the client of connection c sends s.
Accept(c, s) ==
    /\ pc[c] = "idle"
    /\ \A d \in Conns : pc[d] # "aborted"
    /\ accepted < MaxAccepts
    /\ accepted' = accepted + 1
    /\ pc' = [pc EXCEPT ![c] = "start_line"]
    /\ stream' = [stream EXCEPT ![c] = s]
    /\ inp' = [inp EXCEPT ![c] = s]
    /\ seen' = [seen EXCEPT ![c] = posted]
    /\ UNCHANGED <<apiVars, eof, start_line, line, req, route, data, resp, res_buffer, sent, err,
                   fs, writes, posted, offered>>

\* http.rs 28-41.
ReadStartLine(c) ==
    /\ pc[c] = "start_line"
    /\ LET r == ReadLine(inp[c])
           p == ParseStartLine(r.line)
       IN  /\ inp' = [inp EXCEPT ![c] = r.rest]
           /\ start_line' = [start_line EXCEPT ![c] = r.line]
           /\ eof' = [eof EXCEPT ![c] = r.eof]
           /\ CASE p.kind = "ok" ->
                     /\ req' = [req EXCEPT ![c] = [NoRequest EXCEPT !.method = p.method,
                                  !.path = p.path, !.version = p.version]]
                     /\ pc' = [pc EXCEPT ![c] = "headers"]
                     /\ UNCHANGED err
                [] p.kind = "err" -> Fail(c, p.at) /\ UNCHANGED req
                [] OTHER -> Panic(c, p.at) /\ UNCHANGED req
    /\ UNCHANGED <<apiVars, stream, line, route, data, resp, res_buffer, sent, envVars>>

\* One pass of the loop of get_headers (http.rs 86-99).  read_line at the end
\* of the stream is Ok(0): the line is empty, which is no Err and is not
\* "\r\n", so the loop goes round again.
ReadHeaderLine(c) ==
    /\ pc[c] = "headers"
    /\ LET r == ReadLine(inp[c])
       IN  /\ inp' = [inp EXCEPT ![c] = r.rest]
           /\ line' = [line EXCEPT ![c] = r.line]
           /\ eof' = [eof EXCEPT ![c] = r.eof]
           /\ IF r.line = CRLF
              THEN pc' = [pc EXCEPT ![c] = "body"] /\ UNCHANGED req
              ELSE /\ req' = [req EXCEPT ![c].headers = HeaderInsert(@, r.line)]
                   /\ UNCHANGED pc
    /\ UNCHANGED <<apiVars, stream, start_line, route, data, resp, res_buffer, sent, err, envVars>>

\* http.rs 47-77.
ReadRequestBody(c) ==
    /\ pc[c] = "body"
    /\ LET b == ReadBody(req[c].method, req[c].headers, inp[c])
       IN  CASE b.kind = "ok" ->
                  /\ req' = [req EXCEPT ![c].body = b.body]
                  /\ inp' = [inp EXCEPT ![c] = b.rest]
                  /\ pc' = [pc EXCEPT ![c] = "dispatch"]
                  /\ UNCHANGED <<err, eof, writes>>
             [] b.kind = "err" ->
                  /\ Fail(c, b.at)
                  /\ eof' = [eof EXCEPT ![c] = (b.at = "BodyRead")]
                  /\ inp' = [inp EXCEPT ![c] = IF b.at = "BodyRead" THEN <<>> ELSE @]
                  /\ UNCHANGED <<req, writes>>
             [] b.kind = "abort" -> Abort(c, b.at) /\ UNCHANGED <<req, inp, eof>>
             [] OTHER -> Panic(c, b.at) /\ UNCHANGED <<req, inp, eof, writes>>
    /\ UNCHANGED <<apiVars, stream, start_line, line, route, data, resp, res_buffer, sent,
                   fs, accepted, posted, seen, offered>>

\* The arm built its response r and serialized it into _res_buffer.
Serialize(c, r) ==
    /\ resp' = [resp EXCEPT ![c] = r]
    /\ \E o \in KeyOrders(r.headers) :
          res_buffer' = [res_buffer EXCEPT ![c] = write_to_buffer(r, o)]
    /\ pc' = [pc EXCEPT ![c] = "respond"]

\* The arm of the router taken for a request (main.rs 35-108), by name.
ArmOf(path, method) ==
    IF RouteOf(path) = "files"
    THEN (IF method = "GET" THEN "files_get"
          ELSE IF method = "POST" THEN "files_post" ELSE "files_other")
    ELSE RouteOf(path)

\* main.rs 12-108, up to the first await of the arm taken.
Dispatch(c) ==
    /\ pc[c] = "dispatch"
    /\ LET path == req[c].path
           arm == ArmOf(path, req[c].method)
       IN  /\ route' = [route EXCEPT ![c] = arm]
           /\ CASE arm = "root" -> Serialize(c, NewResponse)
                [] arm = "echo" -> Serialize(c, EchoResponse(path, Encoding(req[c].headers)))
                [] arm = "user_agent" ->
                     Serialize(c, user_agent_route(UserAgent(req[c].headers)))
                [] arm = "files_get" ->
                     pc' = [pc EXCEPT ![c] = "file_read"] /\ UNCHANGED <<resp, res_buffer>>
                [] arm = "files_post" ->
                     IF IsSome(req[c].body)
                     THEN pc' = [pc EXCEPT ![c] = "file_create"] /\ UNCHANGED <<resp, res_buffer>>
                     ELSE Serialize(c, set_status_code(NewResponse, 201))
                [] arm = "files_other" -> Serialize(c, set_status_code(NewResponse, 401))
                [] OTHER -> Serialize(c, set_status_code(NewResponse, 404))
    /\ UNCHANGED <<apiVars, stream, inp, eof, start_line, line, req, data, sent, err, envVars>>

\* file_route and set_file_content (main.rs 54-65, http.rs 162-181).
FileRead(c) ==
    /\ pc[c] = "file_read"
    /\ data' = [data EXCEPT ![c] = FsRead(fs, FilePath(req[c].path))]
    /\ Serialize(c, set_file_content(NewResponse, FsRead(fs, FilePath(req[c].path))))
    /\ UNCHANGED <<apiVars, stream, inp, eof, start_line, line, req, route, sent, err, envVars>>

\* tokio::fs::File::create(full_path).await? (main.rs 72-73).
FileCreate(c) ==
    /\ pc[c] = "file_create"
    /\ LET name == FilePath(req[c].path)
       IN  IF FsCanCreate(fs, name)
           THEN /\ fs' = [fs EXCEPT ![name] = Some(<<>>)]
                /\ posted' = [posted EXCEPT ![name] = None]
                /\ seen' = [d \in Conns |-> [seen[d] EXCEPT ![name] = None]]
                /\ offered' = [offered EXCEPT ![name] = @ \cup {req[c].body}]
                /\ pc' = [pc EXCEPT ![c] = "file_write"]
                /\ UNCHANGED err
           ELSE Fail(c, "FileCreate") /\ UNCHANGED <<fs, posted, seen, offered>>
    /\ UNCHANGED <<apiVars, stream, inp, eof, start_line, line, req, route, data, resp, res_buffer,
                   sent, writes, accepted>>

\* .write_all(&body).await (main.rs 74-76), then lines 79-81.  write_all on a
\* tokio::fs::File copies the bytes into the file's buffer and hands the write
\* to the blocking pool; it returns without waiting for that write, and
\* nothing here flushes the file before it is dropped.  An empty body writes
\* nothing.
FileWriteAll(c) ==
    /\ pc[c] = "file_write"
    /\ LET body == Unwrap(req[c].body)
       IN  writes' = IF body = <<>> THEN writes
                     ELSE writes \cup {[name |-> FilePath(req[c].path), data |-> body]}
    /\ Serialize(c, set_status_code(NewResponse, 201))
    /\ UNCHANGED <<apiVars, stream, inp, eof, start_line, line, req, route, data, sent, err,
                   fs, accepted, posted, seen, offered>>

\* The blocking pool performs a write handed to it.
BlockingWrite ==
    /\ \E w \in writes :
          /\ fs' = [fs EXCEPT ![w.name] = Some(Overlay(w.data, Unwrap(fs[w.name])))]
          /\ writes' = writes \ {w}
    /\ UNCHANGED <<apiVars, connVars, accepted, posted, seen, offered>>

\* WriteResponse that answers as soon as the start line is parsed, with the
\* response as it then is.
WriteResponse_AfterStartLine(c) ==
    /\ pc[c] \in {"headers", "respond"}
    /\ sent' = [sent EXCEPT ![c] = IF pc[c] = "respond" THEN res_buffer[c]
                                   ELSE write_to_buffer(resp[c], <<>>)]
    /\ pc' = [pc EXCEPT ![c] = "done"]
    /\ UNCHANGED <<apiVars, stream, inp, eof, start_line, line, req, route, data, resp, res_buffer,
                   err, envVars>>

\* stream.write_all(&_res_buffer) and flush (main.rs 111-120).
WriteResponse(c) ==
    /\ pc[c] = "respond"
    /\ sent' = [sent EXCEPT ![c] = res_buffer[c]]
    /\ pc' = [pc EXCEPT ![c] = "done"]
    /\ posted' = IF route[c] = "files_post" /\ resp[c].status_code = 201
                    /\ FilePath(req[c].path) \in FileNames
                 THEN [posted EXCEPT ![FilePath(req[c].path)] = req[c].body]
                 ELSE posted
    /\ UNCHANGED <<apiVars, stream, inp, eof, start_line, line, req, route, data, resp, res_buffer,
                   err, fs, writes, accepted, seen, offered>>

\* The task is over and its stream is dropped.
TaskEnd(c) ==
    /\ Finished(c)
    /\ pc' = [pc EXCEPT ![c] = "idle"]
    /\ stream' = [stream EXCEPT ![c] = <<>>]
    /\ inp' = [inp EXCEPT ![c] = <<>>]
    /\ eof' = [eof EXCEPT ![c] = FALSE]
    /\ start_line' = [start_line EXCEPT ![c] = <<>>]
    /\ line' = [line EXCEPT ![c] = <<>>]
    /\ data' = [data EXCEPT ![c] = None]
    /\ req' = [req EXCEPT ![c] = NoRequest]
    /\ route' = [route EXCEPT ![c] = ""]
    /\ resp' = [resp EXCEPT ![c] = NewResponse]
    /\ res_buffer' = [res_buffer EXCEPT ![c] = <<>>]
    /\ sent' = [sent EXCEPT ![c] = <<>>]
    /\ err' = [err EXCEPT ![c] = ""]
    /\ seen' = [seen EXCEPT ![c] = NoPosted]
    /\ UNCHANGED <<apiVars, fs, writes, accepted, posted, offered>>

\* Clients that connect one after another: a connection is accepted when no
\* task is running.
AcceptNext ==
    /\ \A d \in Conns : pc[d] = "idle"
    /\ \E s \in Requests : Accept(1, s)

Next ==
    \/ AcceptNext
    \/ \E c \in Conns : ReadStartLine(c)
    \/ \E c \in Conns : ReadHeaderLine(c)
    \/ \E c \in Conns : ReadRequestBody(c)
    \/ \E c \in Conns : Dispatch(c)
    \/ \E c \in Conns : FileRead(c)
    \/ \E c \in Conns : FileCreate(c)
    \/ \E c \in Conns : FileWriteAll(c)
    \/ BlockingWrite
    \/ \E c \in Conns : WriteResponse(c)
    \/ \E c \in Conns : TaskEnd(c)

Spec == Init /\ [][Next]_vars

\* The streams of clients that are connected at the same time.
ConcurrentRequests ==
    {StartLineOf(M_GET, P_ROOT, V_HTTP11) \o CRLF,
     StartLineOf(M_GET, PathFileF, V_HTTP11) \o CRLF,
     StartLineOf(M_POST, PathFileF, V_HTTP11) \o HeaderLineOf(H_CONTENT_LENGTH, <<"2">>)
        \o CRLF \o <<"a", "b">>,
     StartLineOf(M_POST, PathFileF, V_HTTP11) \o HeaderLineOf(H_CONTENT_LENGTH, <<"9", "9">>)
        \o CRLF \o <<"a", "b">>,
     StartLineOf(M_PUT, PathFileF, V_HTTP11) \o CRLF,
     StartLineOf(<<"F", "O", "O">>, P_ROOT, V_HTTP11) \o CRLF}

\* main's loop (main.rs 171-184) as it is: it accepts the next connection
\* and spawns its task whatever the other tasks are doing.
AcceptAny == \E c \in Conns, s \in ConcurrentRequests : Accept(c, s)

NextConcurrent ==
    \/ AcceptAny
    \/ \E c \in Conns : ReadStartLine(c)
    \/ \E c \in Conns : ReadHeaderLine(c)
    \/ \E c \in Conns : ReadRequestBody(c)
    \/ \E c \in Conns : Dispatch(c)
    \/ \E c \in Conns : FileRead(c)
    \/ \E c \in Conns : FileCreate(c)
    \/ \E c \in Conns : FileWriteAll(c)
    \/ BlockingWrite
    \/ \E c \in Conns : WriteResponse(c)
    \/ \E c \in Conns : TaskEnd(c)

\* The server with its tasks interleaved at their awaits.
SpecConcurrent == Init /\ [][NextConcurrent]_vars


(***************************************************************************)
(* Properties.                                                             *)
(***************************************************************************)
\* No header name or value of r carries a line break or a second separator.
PlainHeaders(r) ==
    \A k \in DOMAIN r.headers :
        /\ ~Contains(k, <<"\r">>) /\ ~Contains(k, <<"\n">>) /\ ~Contains(k, <<":">>)
        /\ ~Contains(r.headers[k], <<"\r">>) /\ ~Contains(r.headers[k], <<"\n">>)

\* The number of bytes write_to_buffer is to announce for r.
FramedLength(r) ==
    IF ~IsSome(r.body) THEN 0
    ELSE IF HasKey(r.headers, H_CONTENT_ENCODING) THEN Len(Gzip(Unwrap(r.body)))
    ELSE Len(Unwrap(r.body))

\* buf has exactly one header line named Content-Length, its value is the
\* number of bytes after the blank line, and that number is n.
OneContentLength(buf, n) ==
    LET named == LinesNamed(buf, H_CONTENT_LENGTH)
    IN  /\ HeadEnd(buf) # 0
        /\ Cardinality(named) = 1
        /\ \A i \in named :
              HeaderValue(HeadLines(buf)[i], H_CONTENT_LENGTH) = ToDecimal(Len(BodyBytes(buf)))
        /\ Len(BodyBytes(buf)) = n

\* C1: whatever calls built the response, the serialized bytes hold exactly
\* one header line named Content-Length, and its value is the number of bytes
\* after the blank line: 0 without a body, the body's length without
\* Content-Encoding, the compressed length with it.
C1_OneContentLength == IsSome(out) => OneContentLength(Unwrap(out), FramedLength(res))

\* What does hold of write_to_buffer: the same, for responses whose header
\* names and values are free of line breaks.
ContentLengthOfPlainHeaders ==
    (IsSome(out) /\ PlainHeaders(res)) => OneContentLength(Unwrap(out), FramedLength(res))

\* The bytes after the blank line of buf are body b, compressed or not.
BodyRecovered(buf, b, encoded) ==
    IF encoded THEN BodyBytes(buf) # b /\ Gunzip(BodyBytes(buf)) = Some(b)
    ELSE BodyBytes(buf) = b

\* C2: for a response with body b, the bytes after the blank line are b
\* itself when no Content-Encoding header is set, and the gzip form of b
\* (decompressing gives b) when one is set.
C2_BodyRoundTrip ==
    (IsSome(out) /\ IsSome(res.body)) =>
        BodyRecovered(Unwrap(out), Unwrap(res.body), HasKey(res.headers, H_CONTENT_ENCODING))

\* What does hold of write_to_buffer: the same, for plain headers.
BodyRoundTripOfPlainHeaders ==
    (IsSome(out) /\ IsSome(res.body) /\ PlainHeaders(res)) =>
        BodyRecovered(Unwrap(out), Unwrap(res.body), HasKey(res.headers, H_CONTENT_ENCODING))

\* The task of c has got past the start line (lines 28-41), whatever came of it.
PastStartLine(c) == pc[c] \notin {"idle", "start_line"}

\* C3: a start line of fewer than 3 whitespace-separated tokens makes
\* from_reader return an Err; it never ends in a panic on an index out of
\* range.  (The formula asks only for an Err, of whatever kind.)
C3_ShortStartLineIsErr ==
    \A c \in Conns :
        (PastStartLine(c) /\ Len(SplitWhitespace(start_line[c])) < 3) => pc[c] = "failed"

\* C4: once a read has met the end of the stream before the blank line of
\* the headers, or before the declared body was complete, from_reader has
\* returned an Err: it is not still reading.
C4_EofEndsParsing ==
    \A c \in Conns :
        (eof[c] /\ req[c].method # "") =>
            pc[c] = "failed" /\ err[c] \in {"HeadersRead", "BodyRead"}

\* The task of c has been through the router.
Dispatched(c) == route[c] # ""
\* The task of c has serialized its response.
Serialized(c) == pc[c] \in {"respond", "done"}
NotFoundBytes ==
    HTTP11_SP \o <<"4", "0", "4">> \o SP \o S_NOT_FOUND \o CRLF \o ContentLengthLine(0) \o CRLF

\* C5: a parsed request goes to one handler, the first that matches in the
\* order "/" (exact), "/echo/" (prefix), "/files/" (prefix), "/user-agent"
\* (exact); any other path gets a 404 response with no body.
C5_FirstMatchDispatch ==
    \A c \in Conns :
        Dispatched(c) =>
            LET p == req[c].path
                isRoot == p = P_ROOT
                isEcho == ~isRoot /\ StartsWith(p, P_ECHO)
                isFiles == ~isRoot /\ ~isEcho /\ StartsWith(p, P_FILES)
                isUa == ~isRoot /\ ~isEcho /\ ~isFiles /\ p = P_USER_AGENT
            IN  /\ isRoot <=> route[c] = "root"
                /\ isEcho <=> route[c] = "echo"
                /\ isFiles <=> route[c] \in {"files_get", "files_post", "files_other"}
                /\ isUa <=> route[c] = "user_agent"
                /\ ~(isRoot \/ isEcho \/ isFiles \/ isUa) <=> route[c] = "not_found"
                /\ (route[c] = "root" /\ Serialized(c)) => resp[c] = NewResponse
                /\ (route[c] = "user_agent" /\ Serialized(c)) =>
                      resp[c].body = Some(UserAgent(req[c].headers))
                /\ (route[c] = "not_found" /\ Serialized(c)) =>
                      /\ resp[c].status_code = 404
                      /\ resp[c].body = None
                      /\ res_buffer[c] = NotFoundBytes
                /\ pc[c] = "done" => sent[c] = res_buffer[c]

C5_Witness ==
    \E c \in Conns :
        /\ pc[c] = "done" /\ route[c] = "not_found"
        /\ req[c].path = P_USER_AGENT \o <<"/">>
        /\ sent[c] = NotFoundBytes

\* C6: the body of the echo response is the path without its leading
\* "/echo/", the rest unchanged, also when the rest holds "/echo/" again.
C6_EchoStripsPrefix ==
    \A c \in Conns :
        (route[c] = "echo" /\ Serialized(c)) =>
            resp[c].body = Some(Drop(req[c].path, Len(P_ECHO)))

\* The request of c has an Accept-Encoding header one of whose
\* comma-separated, trimmed values is exactly gzip.
ListsGzip(h) ==
    /\ H_ACCEPT_ENCODING \in DOMAIN h
    /\ LET v == h[H_ACCEPT_ENCODING]
       IN  \E i \in 1..Len(v) + 1, j \in 0..Len(v) :
              /\ i <= j + 1
              /\ i = 1 \/ v[i - 1] = ","
              /\ j = Len(v) \/ v[j + 1] = ","
              /\ ~Contains(SubSeq(v, i, j), <<",">>)
              /\ Trim(SubSeq(v, i, j)) = S_GZIP

\* C7: an /echo/ response carries Content-Encoding: gzip exactly when the
\* request's Accept-Encoding header lists gzip; otherwise it has no
\* Content-Encoding header and its body is sent as it is.
C7_GzipIffListed ==
    \A c \in Conns :
        (route[c] = "echo" /\ Serialized(c)) =>
            LET buf == res_buffer[c]
                ce == LinesNamed(buf, H_CONTENT_ENCODING)
            IN  IF ListsGzip(req[c].headers)
                THEN /\ HasKey(resp[c].headers, H_CONTENT_ENCODING)
                     /\ Cardinality(ce) = 1
                     /\ \A i \in ce : HeadLines(buf)[i] = H_CONTENT_ENCODING \o SEP \o S_GZIP
                     /\ Gunzip(BodyBytes(buf)) = resp[c].body
                ELSE /\ ~HasKey(resp[c].headers, H_CONTENT_ENCODING)
                     /\ ce = {}
                     /\ Some(BodyBytes(buf)) = resp[c].body

C7_Witness ==
    \E c \in Conns :
        /\ pc[c] = "done" /\ route[c] = "echo"
        /\ HasKey(req[c].headers, H_ACCEPT_ENCODING)
        /\ req[c].headers[H_ACCEPT_ENCODING] = <<"b", "r", ",", " ", "g", "z", "i", "p">>
        /\ Gunzip(BodyBytes(sent[c])) = Some(<<"a", "b">>)

\* from_reader on the stream of c is past the body (lines 47-67): it went on,
\* returned an Err there, or panicked there.
PastBody(c) ==
    \/ pc[c] \in {"dispatch", "file_read", "file_create", "file_write", "respond", "done"}
    \/ pc[c] = "failed" /\ err[c] \in {"ContentLengthParse", "BodyRead", "FileCreate"}
    \/ pc[c] = "panicked" /\ err[c] = "todo!()"
BodyParsed(c) == PastBody(c) /\ ~(pc[c] = "failed" /\ err[c] # "FileCreate") /\ pc[c] # "panicked"

\* The bytes of stream s after the blank line that ends its headers.
AfterHeaders(s) == Drop(s, Find(s, <<"\n">> \o CRLF) + 2)
\* v as a decimal number, with or without a leading "+": <<n>>, or <<>>.
AsNat(v) ==
    IF AllDigits(v) THEN <<DecValue(v)>>
    ELSE IF v # <<>> /\ v[1] = "+" /\ AllDigits(Drop(v, 1)) THEN <<DecValue(Drop(v, 1))>>
    ELSE <<>>

C9_GetAfterPost ==
    \A c \in Conns :
        (pc[c] = "done" /\ route[c] = "files_get" /\ FilePath(req[c].path) \in FileNames
            /\ IsSome(seen[c][FilePath(req[c].path)])) =>
                /\ resp[c].status_code = 200
                /\ resp[c].body = seen[c][FilePath(req[c].path)]

OctetStreamLine == H_CONTENT_TYPE \o SEP \o S_OCTET_STREAM

\* C10: a GET of /files/<name> whose read fails is answered 404 with no body
\* and no Content-Type header; one whose read succeeds is answered 200 with
\* Content-Type: application/octet-stream and the bytes read as body.
C10_FileGetResponse ==
    \A c \in Conns :
        (route[c] = "files_get" /\ Serialized(c)) =>
            LET buf == res_buffer[c]
            IN  IF IsSome(data[c])
                THEN /\ resp[c].status_code = 200
                     /\ StartsWith(buf, HTTP11_SP \o <<"2", "0", "0">> \o SP \o S_OK \o CRLF)
                     /\ \E i \in LinesNamed(buf, H_CONTENT_TYPE) : HeadLines(buf)[i] = OctetStreamLine
                     /\ Cardinality(LinesNamed(buf, H_CONTENT_TYPE)) = 1
                     /\ BodyBytes(buf) = Unwrap(data[c])
                     /\ OneContentLength(buf, Len(Unwrap(data[c])))
                ELSE /\ resp[c].status_code = 404
                     /\ resp[c].body = None
                     /\ LinesNamed(buf, H_CONTENT_TYPE) = {}
                     /\ buf = NotFoundBytes

C10_Witness ==
    \E c \in Conns :
        /\ pc[c] = "done" /\ route[c] = "files_get"
        /\ req[c].path = PathFileG
        /\ data[c] = None
        /\ sent[c] = NotFoundBytes

\* The method of the request of c is one whose body from_reader leaves to
\* the last arm of its match (line 66).
OtherMethod(c) == req[c].method \in {"PUT", "PATCH", "DELETE"}
UnauthorizedBytes ==
    HTTP11_SP \o <<"4", "0", "1">> \o SP \o S_UNAUTHORIZED \o CRLF \o ContentLengthLine(0) \o CRLF

\* C11: a well-formed PUT, PATCH or DELETE request for a path under /files/
\* is answered "HTTP/1.1 401 Unauthorized" with no body: once from_reader is
\* through with it, the task goes on to the router and ends having sent
\* exactly those bytes.
C11_FilesOtherMethods401 ==
    \A c \in Conns :
        (OtherMethod(c) /\ StartsWith(req[c].path, P_FILES) /\ line[c] = CRLF) =>
            /\ pc[c] \notin {"failed", "panicked", "aborted"}
            /\ Finished(c) => sent[c] = UnauthorizedBytes

\* C12: for a request whose method is PUT, PATCH or DELETE, from_reader
\* returns an Err that says the method is not implemented; it neither
\* returns a request nor panics.
C12_OtherMethodsAreErr ==
    \A c \in Conns :
        (OtherMethod(c) /\ pc[c] \notin {"headers", "body"}) =>
            pc[c] = "failed" /\ err[c] = "NotImplemented"

\* t has the form HTTP/<major>.<minor>, both of them decimal numbers.
IsHttpVersion(t) ==
    LET prefix == <<"H", "T", "T", "P", "/">>
        rest == Drop(t, Len(prefix))
        dot == Find(rest, <<".">>)
    IN  /\ StartsWith(t, prefix)
        /\ dot # 0
        /\ AllDigits(Take(rest, dot - 1))
        /\ AllDigits(Drop(rest, dot))

\* C13: when the third token of the start line is not of the form
\* HTTP/<major>.<minor> (no "HTTP/" in front, shorter than that, or
\* something else than <major>.<minor> behind it), from_reader returns the
\* Err for a malformed version.
C13_VersionFormIsChecked ==
    \A c \in Conns :
        LET req_parts == SplitWhitespace(start_line[c])
        IN  (/\ PastStartLine(c)
             /\ Len(req_parts) >= 3
             /\ IsSome(parse_request_method(req_parts[1]))
             /\ ~IsHttpVersion(req_parts[3])) =>
                pc[c] = "failed" /\ err[c] = "MalformedVersion"

\* C14: the tasks share nothing a step of one could leave half done for
\* another to see.  A GET of /files/<name> reads the file whole as some
\* serial order of the requests shows it: its first content (or its absence),
\* or the whole body of a POST to it; the same goes for the bytes of its
\* response.
C14_GetSeesWholeFile ==
    \A c \in Conns :
        (route[c] = "files_get" /\ Serialized(c) /\ FilePath(req[c].path) \in FileNames) =>
            /\ data[c] \in offered[FilePath(req[c].path)]
            /\ IsSome(data[c]) => BodyBytes(res_buffer[c]) = Unwrap(data[c])

\* C15: a failure of one connection's task (an Err, a panic, an abort) ends
\* that task alone: a task that is ended by an abort is the one that ran
\* into it.
C15_FailureEndsOneTask ==
    \A c \in Conns : pc[c] = "aborted" => err[c] = "alloc"

\* The number of body bytes the request of c declares.
DeclaredLength(c) ==
    IF req[c].method = "POST" /\ HasKey(req[c].headers, H_CONTENT_LENGTH)
    THEN DecValue(Drop(req[c].headers[H_CONTENT_LENGTH],
                       IF req[c].headers[H_CONTENT_LENGTH][1] = "+" THEN 1 ELSE 0))
    ELSE 0

\* The start line, the headers up to their blank line and the declared body
\* of the request of c are read and parsed, and no byte beyond them is.
FullyParsed(c) ==
    /\ ParseStartLine(start_line[c]).kind = "ok"
    /\ req[c].method = ParseStartLine(start_line[c]).method
    /\ req[c].path = ParseStartLine(start_line[c]).path
    /\ line[c] = CRLF
    /\ BodyParsed(c)
    /\ Len(AfterHeaders(stream[c])) >= DeclaredLength(c)
    /\ inp[c] = Drop(AfterHeaders(stream[c]), DeclaredLength(c))
    /\ req[c].method = "POST" => req[c].body = Some(Take(AfterHeaders(stream[c]), DeclaredLength(c)))

\* C16: bytes are written to a connection only once its request is read and
\* parsed in full (start line, headers, declared body), and a task that
\* failed, in parsing or after it, has written none.
C16_ResponseAfterParse ==
    \A c \in Conns :
        /\ sent[c] # <<>> => pc[c] = "done" /\ FullyParsed(c) /\ sent[c] = res_buffer[c]
        /\ pc[c] \in {"start_line", "headers", "body", "dispatch", "failed", "panicked"}
              => sent[c] = <<>> /\ res_buffer[c] = <<>>
        /\ pc[c] = "aborted" => sent[c] = <<>>

C16_Witness ==
    \E c \in Conns :
        /\ pc[c] = "done" /\ req[c].method = "POST"
        /\ req[c].body = Some(<<"a", "b">>)
        /\ DeclaredLength(c) = 2
        /\ sent[c] # <<>>

\* The status texts by code, as the table reads.
TextOfCode(code) ==
    IF code = 200 THEN <<"O", "K">>
    ELSE IF code = 201 THEN <<"C", "r", "e", "a", "t", "e", "d">>
    ELSE IF code = 400 THEN <<"B", "a", "d", " ", "R", "e", "q", "u", "e", "s", "t">>
    ELSE IF code = 401 THEN <<"U", "n", "a", "u", "t", "h", "o", "r", "i", "z", "e", "d">>
    ELSE IF code = 404 THEN <<"N", "o", "t", " ", "F", "o", "u", "n", "d">>
    ELSE <<"U", "N", "K", "N", "O", "W", "N", " ", "S", "T", "A", "T", "U", "S">>

SameStatus(r, q) == r.status_code = q.status_code /\ r.status_text = q.status_text

\* C17: after any calls on a response made by new(), its status_text is the
\* text the fixed table gives for its status_code (UNKNOWN STATUS for a code
\* not in the table); set_status_code with the same code twice is the same
\* as once; set_header, set_content_type and set_body leave code and text as
\* they are.
C17_StatusTextFollowsCode ==
    /\ res.status_text = TextOfCode(res.status_code)
    /\ \A code \in StatusCodes :
          /\ set_status_code(res, code).status_code = code
          /\ set_status_code(res, code).status_text = TextOfCode(code)
          /\ set_status_code(set_status_code(res, code), code) = set_status_code(res, code)
    /\ \A k \in ApiKeys, v \in ApiValues : SameStatus(set_header(res, k, v), res)
    /\ \A ct \in ContentTypes : SameStatus(set_content_type(res, ct), res)
    /\ \A b \in ApiBodies : SameStatus(set_body(res, b), res)
    /\ IsSome(out) =>
          StartsWith(Unwrap(out), HTTP11_SP \o ToDecimal(res.status_code) \o SP
                                    \o TextOfCode(res.status_code) \o CRLF)

C17_Witness ==
    /\ res.status_code = 204
    /\ res.status_text = S_UNKNOWN_STATUS
    /\ HasKey(res.headers, H_CONTENT_TYPE)
    /\ res.body = Some(<<"a", "b">>)
    /\ IsSome(out)

\* A step of the task of c.
Step(c) ==
    \/ ReadStartLine(c)
    \/ ReadHeaderLine(c)
    \/ ReadRequestBody(c)
    \/ Dispatch(c)
    \/ FileRead(c)
    \/ FileCreate(c)
    \/ FileWriteAll(c)
    \/ WriteResponse(c)

\* The task of c has read no more than one request and has written no more
\* than one response: what it sent is the one buffer it serialized, sent once
\* the request was parsed, and the bytes after that request are unread; a
\* task that is over does nothing more.
OneRequestOneResponse(c) ==
    /\ sent[c] \in {<<>>, res_buffer[c]}
    /\ sent[c] # <<>> => pc[c] = "done"
    /\ pc[c] = "done" =>
          /\ sent[c] # <<>>
          /\ FullyParsed(c)
          /\ stream[c] = Take(stream[c], Len(stream[c]) - Len(inp[c])) \o inp[c]
    /\ ~Running(c) => ~ENABLED Step(c)

\* The next step of the task of c gets it further.  Every place of handler
\* but the loop of get_headers is left by the step taken there; a pass of
\* that loop gets the task further when it ends the loop or takes bytes off
\* the stream.  The places are passed in one order and the stream is finite,
\* so a task that always advances terminates.
CanAdvance(c) ==
    pc[c] = "headers" =>
        ReadLine(inp[c]).line = CRLF \/ Len(ReadLine(inp[c]).rest) < Len(inp[c])

\* C18: a connection is handled once.  Its task reads one request at most
\* and writes one response at most, leaves the bytes of a second request
\* unread, and then terminates: as long as it runs, it can advance.
C18_HandledOnce ==
    \A c \in Conns :
        /\ OneRequestOneResponse(c)
        /\ Running(c) => CanAdvance(c)

\* What does hold: the same without the termination.
AtMostOneRequestAndResponse == \A c \in Conns : OneRequestOneResponse(c)

\* The second request of a connection stays unread after the first is answered.
SecondRequestUnread ==
    \E c \in Conns :
        /\ pc[c] = "done" /\ route[c] = "root"
        /\ inp[c] = StartLineOf(M_GET, PathEchoAb, V_HTTP11) \o CRLF
        /\ sent[c] = write_to_buffer(NewResponse, <<>>)

=============================================================================
